---- MODULE Spec2Model ----
(***************************************************************************)
(* Model of docker_stats_check.py: DockerService.docker_stats,             *)
(* get_cpu_percentage and print_network_stat.                              *)
(*                                                                         *)
(* A run is one process: the docker module's shape, the faults of the      *)
(* client library and the sample stream are the inputs (chosen in Init),   *)
(* every statement that prints or may raise is one step.                   *)
(*                                                                         *)
(* Python dicts are functions over string keys; a missing key makes the    *)
(* subscript raise KeyError.  The 'networks' dict is a sequence of         *)
(* [name, rec] pairs in its iteration order.  Floats are exact rationals   *)
(* and '%.2f' / '%.1f' render them as an integer count of hundredths /     *)
(* tenths.                                                                 *)
(***************************************************************************)
EXTENDS Integers, Sequences, FiniteSets, TLC

\* ---------------------------------------------------------------- bounds
MaxCounter == 2
MaxCores == 2
MaxMem == 2
MaxNet == 1
MaxIfaces == 2
MaxStream == 3

IfNames == {"eth0", "eth1", "lo"}

\* ------------------------------------------------------- dict primitives
has_key(d, k) == k \in DOMAIN d

Without(d, k) == [x \in DOMAIN d \ {k} |-> d[x]]

EmptyDict == [x \in {} |-> 0]

\* ------------------------------------------------------------ input data
CpuUsage(total, cores) ==
    [total_usage |-> total, usage_in_kernelmode |-> 1,
     usage_in_usermode |-> 2, percpu_usage |-> [i \in 1..cores |-> 1]]

CpuRec(total, system, cores) ==
    [cpu_usage |-> CpuUsage(total, cores), system_cpu_usage |-> system]

MemRec(usage) ==
    [usage |-> usage, max_usage |-> MaxMem, stats |-> [total_cache |-> 1]]

NetRec(a, b) ==
    [rx_bytes |-> a, rx_packets |-> b, tx_bytes |-> a + 2, tx_packets |-> b + 4]

NetRecs == {NetRec(a, b) : a \in 0..MaxNet, b \in 0..MaxNet}

\* a sample without precpu_stats, memory limit and network keys
CoreDoc ==
    [cpu_stats |-> CpuRec(2, 2, 2),
     memory_stats |-> MemRec(1),
     pids_stats |-> [current |-> 3]]

BaseDoc == CoreDoc @@ [precpu_stats |-> CpuRec(1, 1, 2)]

\* the record a live stream carries first: zeroed previous-period counters
WarmupDoc ==
    CoreDoc @@ [precpu_stats |-> [cpu_usage |-> [total_usage |-> 0]]]

\* every shape of precpu_stats, from absent to fully present
PreVariants ==
    {EmptyDict}
    \cup {[precpu_stats |-> EmptyDict]}
    \cup {[precpu_stats |-> [system_cpu_usage |-> 1]]}
    \cup {[precpu_stats |-> [cpu_usage |-> [usage_in_usermode |-> 0]]]}
    \cup {[precpu_stats |-> [cpu_usage |-> [total_usage |-> t]]] :
              t \in 0..MaxCounter}
    \cup {[precpu_stats |-> [cpu_usage |-> [total_usage |-> t],
                             system_cpu_usage |-> y]] :
              t \in 0..MaxCounter, y \in 0..MaxCounter}
    \cup {[precpu_stats |-> CpuRec(t, y, n)] :
              t \in 0..MaxCounter, y \in 0..MaxCounter, n \in 1..MaxCores}

CpuDocs ==
    {[cpu_stats |-> CpuRec(t, y, n)] @@ pre @@ Without(CoreDoc, "cpu_stats") :
         t \in 0..MaxCounter, y \in 0..MaxCounter, n \in 1..MaxCores,
         pre \in PreVariants}

MemDocs ==
    {[memory_stats |-> MemRec(u)] @@ BaseDoc : u \in 0..MaxMem}
    \cup {[memory_stats |-> MemRec(u) @@ [limit |-> l]] @@ BaseDoc :
              u \in 0..MaxMem, l \in 0..MaxMem}

RECURSIVE DistinctSeqs(_, _)
DistinctSeqs(S, n) ==
    IF n = 0 THEN {<<>>}
    ELSE LET shorter == DistinctSeqs(S, n - 1)
         IN  shorter \cup
             {Append(q, x) : q \in {r \in shorter : Len(r) = n - 1},
                             x \in S}

NoRepeat(q) == \A i, j \in 1..Len(q) : i # j => q[i] # q[j]

IfaceOrders == {q \in DistinctSeqs(IfNames, MaxIfaces) : NoRepeat(q)}

RECURSIVE Mappings(_)
Mappings(names) ==
    IF names = <<>> THEN {<<>>}
    ELSE {<<[name |-> Head(names), rec |-> r]>> \o m :
              r \in NetRecs, m \in Mappings(Tail(names))}

NetworksDicts == UNION {Mappings(q) : q \in IfaceOrders}

NetDocs ==
    {[network |-> r] @@ BaseDoc : r \in NetRecs}
    \cup {[networks |-> m] @@ BaseDoc : m \in NetworksDicts}
    \cup {[network |-> r, networks |-> <<[name |-> "eth0", rec |-> r]>>]
              @@ BaseDoc : r \in NetRecs}
    \cup {[network |-> Without(NetRec(0, 0), "tx_bytes")] @@ BaseDoc}
    \cup {[networks |-> <<[name |-> "lo", rec |-> NetRec(1, 1)],
                          [name |-> "eth0",
                           rec |-> Without(NetRec(0, 0), "rx_packets")]>>]
              @@ BaseDoc}

\* samples lacking a field the emission reads unconditionally
MissingDocs ==
    {Without(BaseDoc, k) : k \in {"cpu_stats", "memory_stats", "pids_stats"}}
    \cup {[cpu_stats |-> Without(CpuRec(2, 2, 2), "system_cpu_usage")]
              @@ BaseDoc}
    \cup {[cpu_stats |-> [cpu_usage |-> Without(CpuUsage(2, 2), k),
                          system_cpu_usage |-> 2]] @@ BaseDoc :
              k \in {"total_usage", "usage_in_kernelmode",
                     "usage_in_usermode"}}
    \cup {[memory_stats |-> Without(MemRec(1), k)] @@ BaseDoc :
              k \in {"usage", "max_usage", "stats"}}
    \cup {[memory_stats |-> [usage |-> 1, max_usage |-> 1,
                             stats |-> EmptyDict]] @@ BaseDoc}
    \cup {[pids_stats |-> EmptyDict] @@ BaseDoc}

Docs == CpuDocs \cup MemDocs \cup NetDocs \cup MissingDocs

\* what the stats endpoint yields: the text of a JSON document, or text
\* that is no JSON document
Payload(doc) == [valid |-> TRUE, doc |-> doc]

Garbage == [valid |-> FALSE, doc |-> EmptyDict]

Payloads == {Payload(d) : d \in Docs} \cup {Garbage}

Warmup == Payload(WarmupDoc)

\* streams of up to MaxStream elements; one position ranges over every
\* payload, the others carry the warm-up payload
Streams ==
    {<<>>}
    \cup {[i \in 1..n |-> IF i = k THEN x ELSE Warmup] :
              n \in 1..MaxStream, k \in 1..2, x \in Payloads}

FaultStreams == {<<>>, <<Warmup>>, <<Warmup, Payload(BaseDoc)>>}

\* where the client library raises during acquisition
FaultsA == {"none", "Client", "stats"}
FaultsB == {"none", "DockerClient", "get", "stats", "next1", "next2"}

\* ----------------------------------------------------------- output lines
Line(kind, name, suffix, fmt, val) ==
    [kind |-> kind, name |-> name, suffix |-> suffix, fmt |-> fmt, val |-> val]

StatusOkLine == Line("status", "ok", <<>>, "", 0)

StatusErrLine == Line("status", "err", <<>>, "", 0)

UnsupportedLine == Line("other", "unsupported version", <<>>, "", 0)

\* print 'metric <name> int64', value
Metric(name, val) == Line("metric", name, <<>>, "str", val)

\* ----------------------------------------------------------------- floats
Float(n, d) == [num |-> n, den |-> d]

Zero == Float(0, 1)

NoFloat == Float(0, 0)

Abs(x) == IF x < 0 THEN 0 - x ELSE x

\* n/d (d > 0) rounded to the nearest integer, ties to even
RoundHalfEven(n, d) ==
    LET a == Abs(n)
        q == a \div d
        r == a % d
        m == IF 2 * r < d THEN q
             ELSE IF 2 * r > d THEN q + 1
             ELSE IF q % 2 = 0 THEN q ELSE q + 1
    IN  IF n < 0 THEN 0 - m ELSE m

\* '%.2f' % x as a count of hundredths, '%.1f' % x as a count of tenths
Fmt2f(x) == RoundHalfEven(100 * x.num, x.den)

Fmt1f(x) == RoundHalfEven(10 * x.num, x.den)

\* ------------------------------------------------------ get_cpu_percentage
\* the guard with >= for >
CpuGuardMut(cpuDelta, systemDelta) == cpuDelta >= 0 /\ systemDelta >= 0

\* line 147
CpuGuard(cpuDelta, systemDelta) == cpuDelta > 0 /\ systemDelta > 0

CoreCount(c, p) == Len(p["cpu_usage"]["percpu_usage"])

\* the call get_cpu_percentage(c, p): the exception it raises, the value it
\* returns and the divisors of the divisions it performs
get_cpu_percentage(c, p) ==
    IF ~ has_key(p, "system_cpu_usage")
    THEN [exc |-> "KeyError", val |-> NoFloat, div |-> <<>>]
    ELSE
      LET cpuDelta == c["cpu_usage"]["total_usage"]
                          - p["cpu_usage"]["total_usage"]
          systemDelta == c["system_cpu_usage"] - p["system_cpu_usage"]
      IN  IF ~ CpuGuard(cpuDelta, systemDelta)
          THEN [exc |-> "none", val |-> Zero, div |-> <<>>]
          ELSE IF systemDelta = 0
          THEN [exc |-> "ZeroDivisionError", val |-> NoFloat,
                div |-> <<systemDelta>>]
          ELSE IF ~ has_key(p["cpu_usage"], "percpu_usage")
          THEN [exc |-> "KeyError", val |-> NoFloat, div |-> <<systemDelta>>]
          ELSE [exc |-> "none",
                val |-> IF systemDelta > 0
                        THEN Float(cpuDelta * CoreCount(c, p) * 100,
                                   systemDelta)
                        ELSE Float(0 - cpuDelta * CoreCount(c, p) * 100,
                                   0 - systemDelta),
                div |-> <<systemDelta>>]

\* ------------------------------------------------------ print_network_stat
NetFields == <<"rx_bytes", "rx_packets", "tx_bytes", "tx_packets">>

NetName(f) == IF f = "rx_bytes" THEN "network_rx_bytes"
              ELSE IF f = "rx_packets" THEN "network_rx_packets"
              ELSE IF f = "tx_bytes" THEN "network_tx_bytes"
              ELSE "network_tx_packets"

\* number of lines printed before a missing field raises
NetPrinted(n) ==
    IF \A i \in 1..4 : has_key(n, NetFields[i]) THEN 4
    ELSE (CHOOSE i \in 1..4 : /\ ~ has_key(n, NetFields[i])
                              /\ \A j \in 1..(i - 1) : has_key(n, NetFields[j]))
         - 1

print_network_stat(n, suffix) ==
    [lines |-> [i \in 1..NetPrinted(n) |->
                   Line("metric", NetName(NetFields[i]), suffix, "d",
                        n[NetFields[i]])],
     exc |-> IF NetPrinted(n) = 4 THEN "none" ELSE "KeyError"]

TotInit == [rx_bytes |-> 0, rx_packets |-> 0, tx_bytes |-> 0, tx_packets |-> 0]

\* the totals overwritten instead of added to
AccumulateMut(tot, n) == [f \in DOMAIN tot |-> n[f]]

\* lines 127-130
Accumulate(tot, n) == [f \in DOMAIN tot |-> tot[f] + n[f]]

\* ------------------------------------------------------------------ state
VARIABLES hasClient, hasDockerClient, versionOk, fault, stream,
          pc, docker_running, stats, consumed, stat, s, ifidx, tot,
          cpuPercent, divisors, out, exitCode, raised

env == <<hasClient, hasDockerClient, versionOk, fault, stream>>

vars == <<hasClient, hasDockerClient, versionOk, fault, stream,
          pc, docker_running, stats, consumed, stat, s, ifidx, tot,
          cpuPercent, divisors, out, exitCode, raised>>

Running == 0 - 1

Init ==
    /\ hasClient \in BOOLEAN
    /\ hasDockerClient \in BOOLEAN
    /\ versionOk \in BOOLEAN
    /\ (hasClient \/ hasDockerClient) => versionOk
    /\ fault \in (IF hasClient THEN FaultsA
                  ELSE IF hasDockerClient THEN FaultsB ELSE {"none"})
    /\ stream \in (IF ~ (hasClient \/ hasDockerClient) THEN {<<>>}
                   ELSE IF fault \in {"none", "next2"} THEN Streams
                   ELSE FaultStreams)
    /\ pc = "try"
    /\ docker_running = FALSE
    /\ stats = <<>>
    /\ consumed = 0
    /\ stat = Garbage
    /\ s = EmptyDict
    /\ ifidx = 0
    /\ tot = TotInit
    /\ cpuPercent = NoFloat
    /\ divisors = <<>>
    /\ out = <<>>
    /\ exitCode = Running
    /\ raised = "none"

\* an exception nothing catches: traceback on stderr, exit status 1
Raise(e) ==
    /\ pc' = "done"
    /\ raised' = e
    /\ exitCode' = 1

Emit(line, next) ==
    /\ out' = Append(out, line)
    /\ pc' = next
    /\ UNCHANGED <<raised, exitCode>>

\* print of s[k1][k2] (or s[k1][k2][k3]); a missing key raises KeyError
Has2(d, k1, k2) == has_key(d, k1) /\ has_key(d[k1], k2)

Has3(d, k1, k2, k3) == Has2(d, k1, k2) /\ has_key(d[k1][k2], k3)

\* ------------------------------------------------------------ acquisition
\* lines 88-91, 101, 103-104
ClientA ==
    /\ pc = "try"
    /\ hasClient
    /\ IF fault # "none"
       THEN /\ docker_running' = FALSE
            /\ UNCHANGED stats
       ELSE /\ docker_running' = TRUE
            /\ stats' = stream
    /\ pc' = "check"
    /\ UNCHANGED <<env, consumed, stat, s, ifidx, tot, cpuPercent, divisors,
                   out, exitCode, raised>>

\* number of elements next() pulls from the stream before lines 96-97 end
PulledB ==
    IF fault \in {"DockerClient", "get", "stats", "next1"} THEN 0
    ELSE IF fault = "next2" THEN (IF Len(stream) >= 1 THEN 1 ELSE 0)
    ELSE (IF Len(stream) >= 2 THEN 2 ELSE Len(stream))

\* lines 92-97, 101, 103-104
ClientB ==
    /\ pc = "try"
    /\ ~ hasClient
    /\ hasDockerClient
    /\ consumed' = PulledB
    /\ IF fault # "none" \/ Len(stream) < 2
       THEN /\ docker_running' = FALSE
            /\ UNCHANGED stats
       ELSE /\ docker_running' = TRUE
            /\ stats' = <<stream[2]>>
    /\ pc' = "check"
    /\ UNCHANGED <<env, stat, s, ifidx, tot, cpuPercent, divisors,
                   out, exitCode, raised>>

\* a handler that catches the SystemExit of line 100 as well
UnsupportedMut ==
    /\ pc = "try"
    /\ ~ hasClient
    /\ ~ hasDockerClient
    /\ out' = IF versionOk THEN Append(out, UnsupportedLine) ELSE out
    /\ docker_running' = FALSE
    /\ pc' = "check"
    /\ UNCHANGED <<env, stats, consumed, stat, s, ifidx, tot, cpuPercent,
                   divisors, raised, exitCode>>

\* lines 98-100, 103-104: SystemExit is no Exception and passes the handler;
\* an error raised while formatting docker.version is caught by it
Unsupported ==
    /\ pc = "try"
    /\ ~ hasClient
    /\ ~ hasDockerClient
    /\ IF versionOk
       THEN /\ out' = Append(out, UnsupportedLine)
            /\ exitCode' = 1
            /\ pc' = "done"
            /\ UNCHANGED docker_running
       ELSE /\ docker_running' = FALSE
            /\ pc' = "check"
            /\ UNCHANGED <<out, exitCode>>
    /\ UNCHANGED <<env, stats, consumed, stat, s, ifidx, tot, cpuPercent,
                   divisors, raised>>

\* ------------------------------------------------------------------ status
\* lines 106-107
ReportOk ==
    /\ pc = "check"
    /\ docker_running
    /\ Emit(StatusOkLine, "for")
    /\ UNCHANGED <<env, docker_running, stats, consumed, stat, s, ifidx, tot,
                   cpuPercent, divisors>>

\* the failure branch without its sys.exit(1): the function returns and the
\* interpreter exits with status 0
ReportErrMut ==
    /\ pc = "check"
    /\ ~ docker_running
    /\ out' = Append(out, StatusErrLine)
    /\ exitCode' = 0
    /\ pc' = "done"
    /\ UNCHANGED <<env, docker_running, stats, consumed, stat, s, ifidx, tot,
                   cpuPercent, divisors, raised>>

\* lines 135-137
ReportErr ==
    /\ pc = "check"
    /\ ~ docker_running
    /\ out' = Append(out, StatusErrLine)
    /\ exitCode' = 1
    /\ pc' = "done"
    /\ UNCHANGED <<env, docker_running, stats, consumed, stat, s, ifidx, tot,
                   cpuPercent, divisors, raised>>

\* -------------------------------------------------------------- emission
\* line 108; an exhausted iterable ends the loop and the function returns,
\* main returns (line 171) and the interpreter exits with status 0
ForStat ==
    /\ pc = "for"
    /\ IF stats = <<>>
       THEN /\ pc' = "done"
            /\ exitCode' = 0
            /\ UNCHANGED <<stat, stats, consumed>>
       ELSE /\ stat' = Head(stats)
            /\ stats' = Tail(stats)
            /\ consumed' = IF hasClient THEN consumed + 1 ELSE consumed
            /\ pc' = "loads"
            /\ UNCHANGED exitCode
    /\ UNCHANGED <<env, docker_running, s, ifidx, tot, cpuPercent, divisors,
                   out, raised>>

\* line 109
JsonLoads ==
    /\ pc = "loads"
    /\ IF stat.valid
       THEN /\ s' = stat.doc
            /\ pc' = "cpu_total_usage"
            /\ UNCHANGED <<raised, exitCode>>
       ELSE /\ Raise("ValueError")
            /\ UNCHANGED s
    /\ UNCHANGED <<env, docker_running, stats, consumed, stat, ifidx, tot,
                   cpuPercent, divisors, out>>

\* a statement  print 'metric <name> int64', <subscripts of s>
PrintField(at, name, present, val, next) ==
    /\ pc = at
    /\ IF present
       THEN Emit(Metric(name, val), next)
       ELSE Raise("KeyError") /\ UNCHANGED out
    /\ UNCHANGED <<env, docker_running, stats, consumed, stat, s, ifidx, tot,
                   cpuPercent, divisors>>

\* line 110
CpuTotalUsage ==
    PrintField("cpu_total_usage", "cpu_total_usage",
               Has3(s, "cpu_stats", "cpu_usage", "total_usage"),
               s["cpu_stats"]["cpu_usage"]["total_usage"],
               "cpu_system_usage")

\* line 111
CpuSystemUsage ==
    PrintField("cpu_system_usage", "cpu_system_usage",
               Has2(s, "cpu_stats", "system_cpu_usage"),
               s["cpu_stats"]["system_cpu_usage"],
               "cpu_usage_percent")

\* the condition of line 112, once s['precpu_stats'] has been read
PrecpuUsable(p) ==
    /\ p # EmptyDict
    /\ has_key(p, "cpu_usage")
    /\ has_key(p["cpu_usage"], "total_usage")

\* lines 112-113 and the call of lines 139-149
CpuUsagePercent ==
    /\ pc = "cpu_usage_percent"
    /\ IF ~ has_key(s, "precpu_stats")
       THEN /\ Raise("KeyError")
            /\ UNCHANGED <<out, cpuPercent, divisors>>
       ELSE IF ~ PrecpuUsable(s["precpu_stats"])
       THEN /\ pc' = "cpu_kernel_mode_usage"
            /\ UNCHANGED <<out, cpuPercent, divisors, raised, exitCode>>
       ELSE LET r == get_cpu_percentage(s["cpu_stats"], s["precpu_stats"])
            IN  /\ divisors' = divisors \o r.div
                /\ cpuPercent' = r.val
                /\ IF r.exc # "none"
                   THEN Raise(r.exc) /\ UNCHANGED out
                   ELSE Emit(Line("metric", "cpu_usage_percent", <<>>, "2f",
                                  Fmt2f(r.val)),
                             "cpu_kernel_mode_usage")
    /\ UNCHANGED <<env, docker_running, stats, consumed, stat, s, ifidx, tot>>

\* line 114
CpuKernelModeUsage ==
    PrintField("cpu_kernel_mode_usage", "cpu_kernel_mode_usage",
               Has3(s, "cpu_stats", "cpu_usage", "usage_in_kernelmode"),
               s["cpu_stats"]["cpu_usage"]["usage_in_kernelmode"],
               "cpu_user_mode_usage")

\* line 115
CpuUserModeUsage ==
    PrintField("cpu_user_mode_usage", "cpu_user_mode_usage",
               Has3(s, "cpu_stats", "cpu_usage", "usage_in_usermode"),
               s["cpu_stats"]["cpu_usage"]["usage_in_usermode"],
               "memory_usage")

\* line 116
MemoryUsage ==
    PrintField("memory_usage", "memory_usage",
               Has2(s, "memory_stats", "usage"),
               s["memory_stats"]["usage"],
               "memory_usage_percent")

\* lines 117-118
MemoryUsagePercent ==
    /\ pc = "memory_usage_percent"
    /\ LET m == s["memory_stats"]
       IN  IF ~ has_key(m, "limit")
           THEN /\ pc' = "memory_max_usage"
                /\ UNCHANGED <<out, raised, exitCode>>
           ELSE IF m["limit"] = 0
           THEN Raise("ZeroDivisionError") /\ UNCHANGED out
           ELSE Emit(Line("metric", "memory_usage_percent", <<>>, "1f",
                          Fmt1f(Float(100 * m["usage"], m["limit"]))),
                     "memory_max_usage")
    /\ UNCHANGED <<env, docker_running, stats, consumed, stat, s, ifidx, tot,
                   cpuPercent, divisors>>

\* line 119
MemoryMaxUsage ==
    PrintField("memory_max_usage", "memory_max_usage",
               Has2(s, "memory_stats", "max_usage"),
               s["memory_stats"]["max_usage"],
               "memory_total_cache")

\* line 120
MemoryTotalCache ==
    PrintField("memory_total_cache", "memory_total_cache",
               Has3(s, "memory_stats", "stats", "total_cache"),
               s["memory_stats"]["stats"]["total_cache"],
               "pids_current")

\* line 121
PidsCurrent ==
    PrintField("pids_current", "pids_current",
               Has2(s, "pids_stats", "current"),
               s["pids_stats"]["current"],
               "network")

\* lines 122-125: the flat record is printed at once, the mapping starts
\* the loop of line 126 with zeroed totals
Network ==
    /\ pc = "network"
    /\ IF has_key(s, "network")
       THEN LET r == print_network_stat(s["network"], <<>>)
            IN  /\ out' = out \o r.lines
                /\ IF r.exc # "none"
                   THEN Raise(r.exc)
                   ELSE pc' = "exit" /\ UNCHANGED <<raised, exitCode>>
                /\ UNCHANGED <<tot, ifidx>>
       ELSE IF has_key(s, "networks")
       THEN /\ tot' = TotInit
            /\ ifidx' = 1
            /\ pc' = "ifname"
            /\ UNCHANGED <<out, raised, exitCode>>
       ELSE /\ pc' = "exit"
            /\ UNCHANGED <<out, tot, ifidx, raised, exitCode>>
    /\ UNCHANGED <<env, docker_running, stats, consumed, stat, s,
                   cpuPercent, divisors>>

\* lines 126-131: one iteration over s['networks']
Interface ==
    /\ pc = "ifname"
    /\ ifidx <= Len(s["networks"])
    /\ LET e == s["networks"][ifidx]
       IN  IF \E i \in 1..4 : ~ has_key(e.rec, NetFields[i])
           THEN /\ Raise("KeyError")
                /\ UNCHANGED <<out, tot, ifidx>>
           ELSE /\ tot' = Accumulate(tot, e.rec)
                /\ out' = out \o print_network_stat(e.rec,
                                                    <<"_", e.name>>).lines
                /\ ifidx' = ifidx + 1
                /\ UNCHANGED <<pc, raised, exitCode>>
    /\ UNCHANGED <<env, docker_running, stats, consumed, stat, s,
                   cpuPercent, divisors>>

\* line 132
Totals ==
    /\ pc = "ifname"
    /\ ifidx > Len(s["networks"])
    /\ out' = out \o print_network_stat(tot, <<>>).lines
    /\ pc' = "exit"
    /\ UNCHANGED <<env, docker_running, stats, consumed, stat, s, ifidx, tot,
                   cpuPercent, divisors, raised, exitCode>>

\* line 134
Exit0 ==
    /\ pc = "exit"
    /\ exitCode' = 0
    /\ pc' = "done"
    /\ UNCHANGED <<env, docker_running, stats, consumed, stat, s, ifidx, tot,
                   cpuPercent, divisors, out, raised>>

Next ==
    \/ ClientA
    \/ ClientB
    \/ Unsupported
    \/ ReportOk
    \/ ReportErr
    \/ ForStat
    \/ JsonLoads
    \/ CpuTotalUsage
    \/ CpuSystemUsage
    \/ CpuUsagePercent
    \/ CpuKernelModeUsage
    \/ CpuUserModeUsage
    \/ MemoryUsage
    \/ MemoryUsagePercent
    \/ MemoryMaxUsage
    \/ MemoryTotalCache
    \/ PidsCurrent
    \/ Network
    \/ Interface
    \/ Totals
    \/ Exit0

Spec == Init /\ [][Next]_vars

TypeOK ==
    /\ pc \in {"try", "check", "for", "loads", "cpu_total_usage",
               "cpu_system_usage", "cpu_usage_percent",
               "cpu_kernel_mode_usage", "cpu_user_mode_usage", "memory_usage",
               "memory_usage_percent", "memory_max_usage",
               "memory_total_cache", "pids_current", "network", "ifname",
               "exit", "done"}
    /\ exitCode \in {Running, 0, 1}
    /\ (pc = "done") = (exitCode # Running)

\* ------------------------------------------------------ reading the output
IsMetric(l) == l.kind = "metric"

NoMetricLine == \A i \in 1..Len(out) : ~ IsMetric(out[i])

NoStatusOk == \A i \in 1..Len(out) : out[i] # StatusOkLine

Count(name) == Cardinality({i \in 1..Len(out) : out[i].name = name})

Done == pc = "done"

\* the element of the stream each client shape hands to the loop
SampleIndex == IF hasClient THEN 1 ELSE 2

\* the run decoded a sample and went on to print its fields
Decoded ==
    /\ StatusOkLine \in {out[i] : i \in 1..Len(out)}
    /\ pc \notin {"for", "loads"}
    /\ raised # "ValueError"
    /\ s # EmptyDict

\* the acquisition step raises an exception the handler of line 103 catches
AcquisitionRaises ==
    \/ hasClient /\ fault # "none"
    \/ ~ hasClient /\ hasDockerClient /\ (fault # "none" \/ Len(stream) < 2)
    \/ ~ hasClient /\ ~ hasDockerClient /\ ~ versionOk

\* ---------------------------------------------------------------------- C1
\* C1: in every run whose acquisition step raises (client construction,
\* stats call, container lookup, a shape-B stream of fewer than two
\* elements), no metric line and no 'status ok' line is ever written, and
\* the run ends with exactly one 'status err' line and exit code 1.
C1_AcquisitionFailure ==
    AcquisitionRaises =>
        /\ NoMetricLine
        /\ NoStatusOk
        /\ raised = "none"
        /\ Done => (out = <<StatusErrLine>> /\ exitCode = 1)

C1_Witness ==
    /\ ~ hasClient
    /\ hasDockerClient
    /\ fault = "none"
    /\ Len(stream) = 1
    /\ Done
    /\ out = <<StatusErrLine>>
    /\ exitCode = 1

\* ---------------------------------------------------------------------- C2
\* C2: every run with a client that fails at any step (also in json.loads or
\* on a missing field) writes no metric line and no 'status ok' line and
\* ends with a 'status err' line and exit code 1.
C2_NoPartialMetrics ==
    (Done /\ (hasClient \/ hasDockerClient)
          /\ (exitCode # 0 \/ raised # "none")) =>
        /\ NoMetricLine
        /\ NoStatusOk
        /\ Len(out) >= 1
        /\ out[Len(out)] = StatusErrLine
        /\ exitCode = 1

\* ---------------------------------------------------------------------- C3
FixedOrder ==
    <<"cpu_total_usage", "cpu_system_usage", "cpu_usage_percent",
      "cpu_kernel_mode_usage", "cpu_user_mode_usage", "memory_usage",
      "memory_usage_percent", "memory_max_usage", "memory_total_cache",
      "pids_current">>

Bracketed == {"cpu_usage_percent", "memory_usage_percent"}

Pos(name) == CHOOSE i \in 1..Len(FixedOrder) : FixedOrder[i] = name

IsFixed(l) == \E i \in 1..Len(FixedOrder) : FixedOrder[i] = l.name

\* the lines after the first are metric lines in the fixed order, every
\* entry that is not bracketed is there, the network lines come last and
\* no name (with its suffix) is printed twice
InFixedOrder ==
    /\ \A i \in 2..Len(out) : IsMetric(out[i])
    /\ \A i, j \in 2..Len(out) :
           (i < j /\ IsFixed(out[i]) /\ IsFixed(out[j]))
               => Pos(out[i].name) < Pos(out[j].name)
    /\ \A k \in 1..Len(FixedOrder) :
           FixedOrder[k] \notin Bracketed
               => \E i \in 2..Len(out) : out[i].name = FixedOrder[k]
    /\ \A i, j \in 2..Len(out) :
           (IsFixed(out[i]) /\ ~ IsFixed(out[j])) => i < j
    /\ \A i, j \in 2..Len(out) :
           (i # j) => <<out[i].name, out[i].suffix>>
                          # <<out[j].name, out[j].suffix>>

\* C3: in every run that ends with exit code 0 the first line is
\* 'status ok' and the metric lines follow in the fixed order, only the
\* bracketed entries absent, no name twice.
C3_FixedOrder ==
    (Done /\ exitCode = 0) =>
        /\ Len(out) >= 1
        /\ out[1] = StatusOkLine
        /\ InFixedOrder

\* ---------------------------------------------------------------------- C4
\* C4 as stated: with neither Client nor DockerClient the run prints
\* 'status err', no metric line, and ends with exit code 1.
C4_AsStated ==
    (Done /\ ~ hasClient /\ ~ hasDockerClient) =>
        /\ out = <<StatusErrLine>>
        /\ exitCode = 1

\* C4 (amended): with neither Client nor DockerClient the run writes no
\* metric line and no 'status ok' line and ends with exit code 1 after
\* exactly one line: the 'unsupported version' diagnostic, which is not a
\* status line, or 'status err' when formatting docker.version raises.
C4_Unsupported ==
    (~ hasClient /\ ~ hasDockerClient) =>
        /\ NoMetricLine
        /\ NoStatusOk
        /\ raised = "none"
        /\ Done => /\ exitCode = 1
                   /\ out = <<IF versionOk THEN UnsupportedLine
                              ELSE StatusErrLine>>

C4_Witness ==
    /\ ~ hasClient
    /\ ~ hasDockerClient
    /\ versionOk
    /\ Done
    /\ exitCode = 1
    /\ out = <<UnsupportedLine>>

\* ---------------------------------------------------------------------- C5
PrecpuFull(d) ==
    /\ has_key(d, "precpu_stats")
    /\ Has3(d, "precpu_stats", "cpu_usage", "total_usage")
    /\ Has3(d, "precpu_stats", "cpu_usage", "percpu_usage")
    /\ Has2(d, "precpu_stats", "system_cpu_usage")

\* C5: for a sample whose precpu record is absent, empty or partial the run
\* prints no cpu_usage_percent line, prints the remaining metrics and ends
\* with exit code 0; for a fully present precpu record it prints exactly
\* one cpu_usage_percent line.
C5_PrecpuGuard ==
    (Done /\ Decoded /\ s \in CpuDocs) =>
        /\ exitCode = 0
        /\ Count("cpu_usage_percent") = (IF PrecpuFull(s) THEN 1 ELSE 0)
        /\ Count("pids_current") = 1

\* ---------------------------------------------------------------------- C6
\* C6: memory_usage_percent is printed iff memory.limit is present, for
\* every usage and limit >= 0; its value is 100*usage/limit to one decimal
\* and the run goes on to exit code 0.
C6_MemoryPercent ==
    (Done /\ Decoded /\ s \in MemDocs) =>
        /\ exitCode = 0
        /\ Count("memory_usage_percent")
               = (IF has_key(s["memory_stats"], "limit") THEN 1 ELSE 0)
        /\ Count("memory_max_usage") = 1
        /\ \A i \in 1..Len(out) :
               out[i].name = "memory_usage_percent" =>
                   out[i].val = RoundHalfEven(1000 * s["memory_stats"]["usage"],
                                              s["memory_stats"]["limit"])

\* ---------------------------------------------------------------------- C7
RECURSIVE SumField(_, _)
SumField(m, f) ==
    IF m = <<>> THEN 0 ELSE m[1].rec[f] + SumField(Tail(m), f)

FourLines(n, suffix) ==
    <<Line("metric", "network_rx_bytes", suffix, "d", n["rx_bytes"]),
      Line("metric", "network_rx_packets", suffix, "d", n["rx_packets"]),
      Line("metric", "network_tx_bytes", suffix, "d", n["tx_bytes"]),
      Line("metric", "network_tx_packets", suffix, "d", n["tx_packets"])>>

RECURSIVE PerInterface(_)
PerInterface(m) ==
    IF m = <<>> THEN <<>>
    ELSE FourLines(m[1].rec, <<"_", m[1].name>>) \o PerInterface(Tail(m))

\* the reference aggregation of section 4.4
ReferenceBlock(d) ==
    IF has_key(d, "network") THEN FourLines(d["network"], <<>>)
    ELSE IF has_key(d, "networks")
    THEN PerInterface(d["networks"])
         \o FourLines([f \in DOMAIN TotInit |-> SumField(d["networks"], f)],
                      <<>>)
    ELSE <<>>

\* the lines printed after the pids_current line
NetworkBlock ==
    LET i == CHOOSE k \in 1..Len(out) : out[k].name = "pids_current"
    IN  SubSeq(out, i + 1, Len(out))

\* C7: the network block of a successful run is the reference aggregation:
\* the 4 unsuffixed lines of the flat record; or, for a mapping of n
\* interfaces, 4 suffixed lines per interface in iteration order followed
\* by one unsuffixed group holding the per-field sums (4n+4 lines); or
\* nothing when the sample has neither key.
C7_NetworkBlock ==
    (Done /\ exitCode = 0 /\ Count("pids_current") = 1) =>
        /\ NetworkBlock = ReferenceBlock(s)
        /\ (~ has_key(s, "network") /\ has_key(s, "networks"))
               => Len(NetworkBlock) = 4 * Len(s["networks"]) + 4

C7_Witness ==
    /\ Done
    /\ exitCode = 0
    /\ ~ has_key(s, "network")
    /\ has_key(s, "networks")
    /\ Len(s["networks"]) = 2
    /\ Len(NetworkBlock) = 12
    /\ out[Len(out) - 3].val = 2
    /\ out[Len(out) - 3].suffix = <<>>

\* ---------------------------------------------------------------------- C8
\* the step of lines 112-113 has been taken
PastCpuPercent ==
    /\ Len(out) >= 3
    /\ out[1] = StatusOkLine
    /\ pc # "cpu_usage_percent"

\* get_cpu_percentage has been called with records that carry the counters
Called ==
    /\ PastCpuPercent
    /\ has_key(s, "precpu_stats")
    /\ PrecpuUsable(s["precpu_stats"])
    /\ has_key(s["precpu_stats"], "system_cpu_usage")

CpuDeltaOf(d) ==
    d["cpu_stats"]["cpu_usage"]["total_usage"]
        - d["precpu_stats"]["cpu_usage"]["total_usage"]

SystemDeltaOf(d) ==
    d["cpu_stats"]["system_cpu_usage"] - d["precpu_stats"]["system_cpu_usage"]

\* C8: get_cpu_percentage returns exactly 0.0 and raises nothing whenever
\* cpuDelta <= 0 or systemDelta <= 0, and every division it performs has a
\* divisor systemDelta > 0.
C8_Guarded ==
    /\ \A i \in 1..Len(divisors) : divisors[i] > 0
    /\ (Called /\ (CpuDeltaOf(s) <= 0 \/ SystemDeltaOf(s) <= 0)) =>
           /\ cpuPercent = Zero
           /\ divisors = <<>>
           /\ Len(out) >= 4
           /\ out[4] = Line("metric", "cpu_usage_percent", <<>>, "2f", 0)
    /\ (Called /\ PrecpuFull(s)) =>
           /\ cpuPercent # NoFloat
           /\ Count("cpu_usage_percent") = 1

C8_Witness ==
    /\ Called
    /\ CpuDeltaOf(s) > 0
    /\ SystemDeltaOf(s) = 0
    /\ cpuPercent = Zero
    /\ divisors = <<>>
    /\ Count("cpu_usage_percent") = 1

\* ---------------------------------------------------------------------- C9
\* C9: with cpuDelta > 0 and systemDelta > 0 the printed cpu_usage_percent
\* is (cpuDelta / systemDelta) * core_count * 100 where core_count is the
\* length of the per-core list of the current CPU record.
C9_CurrentCoreCount ==
    \A i \in 1..Len(out) :
        (out[i].name = "cpu_usage_percent"
            /\ CpuDeltaOf(s) > 0 /\ SystemDeltaOf(s) > 0) =>
            out[i].val =
                RoundHalfEven(100 * CpuDeltaOf(s) * 100
                                  * Len(s["cpu_stats"]["cpu_usage"]["percpu_usage"]),
                              SystemDeltaOf(s))

\* --------------------------------------------------------------------- C10
\* C10: every run that prints 'status ok' decodes exactly one sample, the
\* first element of the stream with Client and the second with
\* DockerClient, prints its metrics and ends with exit code 0.
C10_ExactlyOneSample ==
    (Done /\ ~ NoStatusOk) =>
        /\ exitCode = 0
        /\ Len(stream) >= SampleIndex
        /\ stream[SampleIndex].valid
        /\ s = stream[SampleIndex].doc
        /\ Count("pids_current") = 1

\* ------------------------------------------------- what holds all the same
\* a run that reaches line 134 has printed 'status ok' and the metric lines
\* in the fixed order
FixedOrderOfProcessedSample ==
    (Done /\ exitCode = 0 /\ Decoded) =>
        /\ out[1] = StatusOkLine
        /\ InFixedOrder

\* the sample the loop decodes is the first element of the stream with
\* Client and the second with DockerClient, and no later element is pulled
ProcessedSampleIndex ==
    /\ consumed <= SampleIndex
    /\ Decoded => /\ Len(stream) >= SampleIndex
                  /\ s = stream[SampleIndex].doc
                  /\ consumed = SampleIndex

\* the printed cpu_usage_percent uses the per-core list of the previous
\* record
PreviousCoreCount ==
    \A i \in 1..Len(out) :
        (out[i].name = "cpu_usage_percent"
            /\ CpuDeltaOf(s) > 0 /\ SystemDeltaOf(s) > 0) =>
            out[i].val =
                RoundHalfEven(100 * CpuDeltaOf(s) * 100
                                  * Len(s["precpu_stats"]["cpu_usage"]["percpu_usage"]),
                              SystemDeltaOf(s))

\* with a limit above zero the memory percentage is printed as claimed
MemoryPercentPositiveLimit ==
    (Done /\ Decoded /\ s \in MemDocs
          /\ (has_key(s["memory_stats"], "limit")
                  => s["memory_stats"]["limit"] > 0)) =>
        /\ exitCode = 0
        /\ Count("memory_usage_percent")
               = (IF has_key(s["memory_stats"], "limit") THEN 1 ELSE 0)
        /\ \A i \in 1..Len(out) :
               out[i].name = "memory_usage_percent" =>
                   out[i].val = RoundHalfEven(1000 * s["memory_stats"]["usage"],
                                              s["memory_stats"]["limit"])

====
